---- MODULE Spec2Model ----
(***************************************************************************)
(* IDA Pro SigMaker (Main.cpp): the growing unique-signature builder, the  *)
(* range builder, the cross-reference ranker and the signature-string      *)
(* parser, over a small loaded image.                                      *)
(*                                                                         *)
(* Addresses are 0 .. ImgLen-1 (inf.min_ea = 0, inf.max_ea = ImgLen).      *)
(* Text is a sequence of one-character strings.                            *)
(***************************************************************************)
EXTENDS Integers, Sequences, FiniteSets, TLC

\* ---------------------------------------------------------------- bounds
ImgLen == 4
FuncSplit == 2
MaxXrefs == 2
MaxSigLen == 3

\* ------------------------------------------------------ program constants
BADADDR == -1
DefaultMaxSignatureLength == 1000
XrefMaxSignatureLength == 250

MinEA == 0
MaxEA == ImgLen
Addr == MinEA .. (MaxEA - 1)

\* The byte values of the modelled images: 0x90 and 0xB0.
Bytes == {144, 176}
Images == [Addr -> Bytes]

VARIABLES
    image,                      \* the loaded image, Addr -> byte
    IS_ARM,                     \* the processor policy flag
    layout,                     \* which function / code map the database holds
    action,                     \* the dialog's action, 0 .. 3
    ea, eaEnd,                  \* anchor (or range start) and range end
    wildcardOperands, continueOutsideOfFunction,
    maxSignatureLength, askLongerSignature,
    cancelled,                  \* what user_cancelled() answers
    pc,                         \* where the running routine stands
    signature, sigPartLength, currentAddress, currentFunction,
    result,                     \* the std::expected a builder returned
    tested,                     \* per growth step: the signature queried and the count reported
    starts,                     \* start address of every instruction appended
    insnEnd,                    \* end address of the last instruction appended
    nDecode, nQuery, nRead,     \* decode_insn calls, matcher queries, image bytes read
    xrefs, xi, xrefSignatures,  \* FindXRefs: the references, the loop index, the output vector
    outcomes,                   \* FindXRefs: origin and result of every build, in call order
    input, origin, dialect, source, genMask, genValues,
    stringMask, convertedSignature, convertedSignatureString, parsedPattern,
    messages, matches

envVars == <<image, IS_ARM, layout, action, wildcardOperands, continueOutsideOfFunction,
             maxSignatureLength, askLongerSignature>>
buildVars == <<ea, eaEnd, signature, sigPartLength, currentAddress, currentFunction, result,
               tested, starts, insnEnd, nDecode, nQuery, nRead>>
xrefVars == <<xrefs, xi, xrefSignatures, outcomes>>
searchVars == <<input, origin, dialect, source, genMask, genValues, stringMask,
                convertedSignature, convertedSignatureString, parsedPattern, messages, matches>>
vars == <<envVars, buildVars, xrefVars, searchVars, cancelled, pc>>

\* ------------------------------------------------------- Signature model
SignatureByte(v, w) == [value |-> v, isWildcard |-> w]

HexDigits == <<"0", "1", "2", "3", "4", "5", "6", "7", "8", "9", "A", "B", "C", "D", "E", "F">>
HexChars == {HexDigits[i] : i \in 1..16}
HexByte(b) == <<HexDigits[(b \div 16) + 1], HexDigits[(b % 16) + 1]>>
HexValue(c) == (CHOOSE i \in 1..16 : HexDigits[i] = c) - 1

RECURSIVE Concat(_)
Concat(parts) == IF parts = <<>> THEN <<>> ELSE Head(parts) \o Concat(Tail(parts))

\* a database byte; an address outside the image reads as 0xFF
get_byte(a) == IF a \in Addr THEN image[a] ELSE 255

\* AddBytesToSignature(signature, address, count, isWildcard)
AddBytesToSignature(sig, address, count, isWildcard) ==
    sig \o [i \in 1..count |-> SignatureByte(get_byte(address + i - 1), isWildcard)]

\* TrimSignature: drop entries from the tail while they are wildcards
RECURSIVE TrimSignature(_)
TrimSignature(sig) ==
    IF sig # <<>> /\ sig[Len(sig)].isWildcard
    THEN TrimSignature(SubSeq(sig, 1, Len(sig) - 1))
    ELSE sig

\* BuildIDASignatureString(signature, doubleQM): tokens separated by one space
BuildIDASignatureString(sig, doubleQM) ==
    Concat([i \in 1..Len(sig) |->
              (IF sig[i].isWildcard
               THEN (IF doubleQM THEN <<"?", "?">> ELSE <<"?">>)
               ELSE HexByte(sig[i].value))
              \o (IF i < Len(sig) THEN <<" ">> ELSE <<>>)])

\* "\xNN" per byte, a space, then the mask string
BuildByteArrayWithMaskSignatureString(sig) ==
    Concat([i \in 1..Len(sig) |-> <<"\\", "x">> \o HexByte(sig[i].value)])
    \o <<" ">>
    \o [i \in 1..Len(sig) |-> IF sig[i].isWildcard THEN "?" ELSE "x"]

\* "0xNN, " per byte, then "0b" and the bits, first byte least significant
BuildBytesWithBitmaskSignatureString(sig) ==
    Concat([i \in 1..Len(sig) |-> <<"0", "x">> \o HexByte(sig[i].value) \o <<",", " ">>])
    \o <<" ", "0", "b">>
    \o [i \in 1..Len(sig) |-> IF sig[Len(sig) + 1 - i].isWildcard THEN "0" ELSE "1"]

SignatureTypes == {"IDA", "x64Dbg", "Signature_Mask", "SignatureByteArray_Bitmask"}

FormatSignature(sig, type) ==
    CASE type = "IDA" -> BuildIDASignatureString(sig, FALSE)
      [] type = "x64Dbg" -> BuildIDASignatureString(sig, TRUE)
      [] type = "Signature_Mask" -> BuildByteArrayWithMaskSignatureString(sig)
      [] type = "SignatureByteArray_Bitmask" -> BuildBytesWithBitmaskSignatureString(sig)

\* ------------------------------------------------------------ the matcher
Whitespace == {" ", "\t", "\n"}

\* the whitespace-separated tokens of a text
RECURSIVE Tokens(_, _)
Tokens(text, cur) ==
    IF text = <<>> THEN (IF cur = <<>> THEN <<>> ELSE <<cur>>)
    ELSE IF Head(text) \in Whitespace
         THEN (IF cur = <<>> THEN <<>> ELSE <<cur>>) \o Tokens(Tail(text), <<>>)
         ELSE Tokens(Tail(text), Append(cur, Head(text)))

\* parse_binpat_str, radix 16: "?" tokens are wildcards, hex tokens are bytes
parse_binpat_str(text) ==
    LET toks == Tokens(text, <<>>)
    IN [i \in 1..Len(toks) |->
          IF toks[i][1] = "?" THEN SignatureByte(0, TRUE)
          ELSE SignatureByte(HexValue(toks[i][1]) * 16 + HexValue(toks[i][2]), FALSE)]

\* the pattern occurs at p, wholly inside [MinEA, MaxEA)
OccursAt(pattern, p) ==
    /\ p >= MinEA
    /\ p + Len(pattern) <= MaxEA
    /\ \A i \in 1..Len(pattern) : pattern[i].isWildcard \/ image[p + i - 1] = pattern[i].value

\* bin_search2(start, max_ea, pattern, FORWARD): the first occurrence at or after start
bin_search2(start, pattern) ==
    LET hits == {p \in Addr : p >= start /\ OccursAt(pattern, p)}
    IN IF hits = {} THEN BADADDR ELSE CHOOSE p \in hits : \A q \in hits : p <= q

RECURSIVE SearchFrom(_, _)
SearchFrom(start, pattern) ==
    LET occurence == bin_search2(start, pattern)
    IN IF occurence = BADADDR THEN <<>>
       ELSE <<occurence>> \o SearchFrom(occurence + 1, pattern)

FindSignatureOccurences(idaSignature) == SearchFrom(MinEA, parse_binpat_str(idaSignature))

\* a uniqueness test that accepts any signature that occurs at all
IsSignatureUnique_AnyOccurrence(idaSignature) == Len(FindSignatureOccurences(idaSignature)) >= 1

IsSignatureUnique(idaSignature) == Len(FindSignatureOccurences(idaSignature)) = 1

\* ------------------------------------------------------------ the database
Layouts == {"head", "tail", "two", "datatail"}

\* get_func(a): 0 is "no function"
get_func(a) ==
    CASE layout = "head" -> IF a \in Addr /\ a < FuncSplit THEN 1 ELSE 0
      [] layout = "tail" -> IF a \in Addr /\ a >= FuncSplit THEN 1 ELSE 0
      [] layout = "two" -> IF a \notin Addr THEN 0 ELSE IF a < FuncSplit THEN 1 ELSE 2
      [] layout = "datatail" -> 0

\* is_code(get_flags(a)): in layout "datatail" the last byte of the image is data
is_code(a) == a \in Addr /\ (layout = "datatail" => a < MaxEA - 1)

Op(t, o) == [type |-> t, offb |-> o]
Insn(n, o) == [size |-> n, ops |-> o]

\* the metapc decoder on the modelled byte values: 90 is a one-byte instruction without
\* operands, B0 90 a register/immediate form, B0 B0 xx a register/displacement form
DecodeMetapc(a) ==
    IF get_byte(a) = 144 THEN Insn(1, <<Op("o_void", 0)>>)
    ELSE IF get_byte(a + 1) = 144 THEN Insn(2, <<Op("o_reg", 0), Op("o_imm", 1)>>)
    ELSE Insn(3, <<Op("o_reg", 0), Op("o_displ", 2)>>)

\* the ARM decoder on the modelled byte values: 90 starts a two-byte (Thumb) form, B0 a
\* four-byte form whose operand offset the next two bytes select, B0 B0 B0 an 8-byte form
DecodeARM(a) ==
    IF get_byte(a) = 144 THEN Insn(2, <<Op("o_reg", 0), Op("o_imm", 0)>>)
    ELSE IF get_byte(a + 1) = 144
         THEN (IF get_byte(a + 2) = 144
               THEN Insn(4, <<Op("o_reg", 0), Op("o_imm", 0)>>)
               ELSE Insn(4, <<Op("o_reg", 0), Op("o_imm", 1)>>))
         ELSE (IF get_byte(a + 2) = 144
               THEN Insn(4, <<Op("o_reg", 0), Op("o_mem", 2)>>)
               ELSE Insn(8, <<Op("o_reg", 0), Op("o_near", 0)>>))

\* decode_insn(&instruction, a): size 0 when nothing decodes at a
decode_insn(a) ==
    LET insn == IF IS_ARM THEN DecodeARM(a) ELSE DecodeMetapc(a)
    IN IF is_code(a) /\ is_code(a + insn.size - 1) THEN insn ELSE Insn(0, <<>>)

\* ------------------------------------------------- operand wildcard policy
ArmMaskedTypes == {"o_mem", "o_far", "o_near", "o_phrase", "o_displ", "o_imm"}

Operand(f, o, l) == [found |-> f, operandOffset |-> o, operandLength |-> l]

\* the first index of ops among the qualifying ones, or 0
FirstOp(ops, qualifying) ==
    IF qualifying = {} THEN 0
    ELSE CHOOSE i \in qualifying : \A j \in qualifying : i <= j

GetOperandOffsetARM(instruction) ==
    LET Qualifies(op) == op.type \in ArmMaskedTypes
        i == FirstOp(instruction.ops,
                     {k \in 1..Len(instruction.ops) : Qualifies(instruction.ops[k])})
    IN IF i = 0 THEN Operand(FALSE, 0, 0)
       ELSE Operand(TRUE, instruction.ops[i].offb,
                    IF instruction.size = 8 THEN 7
                    ELSE IF instruction.size = 4 THEN 3
                    ELSE 0)

GetOperand(instruction) ==
    IF IS_ARM THEN GetOperandOffsetARM(instruction)
    ELSE LET Qualifies(op) == op.type # "o_void" /\ op.offb # 0
             i == FirstOp(instruction.ops,
                          {k \in 1..Len(instruction.ops) : Qualifies(instruction.ops[k])})
         IN IF i = 0 THEN Operand(FALSE, 0, 0)
            ELSE Operand(TRUE, instruction.ops[i].offb,
                         (instruction.size - instruction.ops[i].offb) % 256)

\* the bytes one decoded instruction adds to the signature
AppendInstruction(sig, instruction, address) ==
    LET operand == GetOperand(instruction)
    IN IF wildcardOperands /\ operand.found /\ operand.operandLength > 0
       THEN LET opcodes == AddBytesToSignature(sig, address, operand.operandOffset, FALSE)
                masked == AddBytesToSignature(opcodes, address + operand.operandOffset,
                                              operand.operandLength, TRUE)
            IN IF operand.operandOffset = 0
               THEN AddBytesToSignature(masked, address + operand.operandLength,
                                        instruction.size - operand.operandLength, FALSE)
               ELSE masked
       ELSE AddBytesToSignature(sig, address, instruction.size, FALSE)

\* ------------------------------------------------------------ results
NoResult == [kind |-> "none", error |-> "", signature |-> <<>>]
Unexpected(e) == [kind |-> "error", error |-> e, signature |-> <<>>]
Expected(sig) == [kind |-> "value", error |-> "", signature |-> sig]

\* where a builder's return leads: back into FindXRefs, or to the end of the action
ReturnPc == IF action = 1 THEN "ret" ELSE "done"

\* a cancel flag that is never seen
user_cancelled_NeverSeen == FALSE

\* user_cancelled(): the wait box's cancel flag
user_cancelled == cancelled

\* ----------------------------------------- GenerateUniqueSignatureForEA
\* entry: the address checks and the locals
GenerateUniqueEnter ==
    /\ pc = "call"
    /\ IF ea = BADADDR
       THEN /\ result' = Unexpected("Invalid address")
            /\ pc' = ReturnPc
            /\ UNCHANGED <<signature, sigPartLength, currentAddress, currentFunction>>
       ELSE IF ~is_code(ea)
       THEN /\ result' = Unexpected("Can not create code signature for data")
            /\ pc' = ReturnPc
            /\ UNCHANGED <<signature, sigPartLength, currentAddress, currentFunction>>
       ELSE /\ signature' = <<>>
            /\ sigPartLength' = 0
            /\ currentFunction' = get_func(ea)
            /\ currentAddress' = ea
            /\ result' = NoResult
            /\ pc' = "loop"
    /\ tested' = <<>>
    /\ starts' = <<>>
    /\ insnEnd' = ea
    /\ UNCHANGED <<envVars, xrefVars, searchVars, cancelled, ea, eaEnd, nDecode, nQuery, nRead>>

\* whether the length check stops this iteration
Overflows(part) == part > maxSignatureLength

\* the uniqueness test of one growth step
StepIsUnique(sig) == IsSignatureUnique(BuildIDASignatureString(sig, FALSE))

\* a scope check that only notices a cursor outside every function
LeftFunction_OnlyOutsideAll(cursor) ==
    ~continueOutsideOfFunction /\ currentFunction # 0 /\ get_func(cursor) = 0

\* whether the scope check ends the search at the new cursor
LeftFunction(cursor) ==
    ~continueOutsideOfFunction /\ currentFunction # 0 /\ get_func(cursor) # currentFunction

\* one iteration of the while loop; answer is what ask_yn returns when it is asked
GenerateUniqueIteration(answer) ==
    /\ pc = "loop"
    /\ IF user_cancelled
       THEN /\ result' = Unexpected("Aborted")
            /\ pc' = ReturnPc
            /\ UNCHANGED <<signature, sigPartLength, currentAddress, tested, starts, insnEnd,
                           nDecode, nQuery, nRead>>
       ELSE LET instruction == decode_insn(currentAddress)
                currentInstructionLength == instruction.size
            IN /\ nDecode' = nDecode + 1
               /\ IF currentInstructionLength <= 0
                  THEN /\ result' = IF signature = <<>>
                                    THEN Unexpected("Failed to decode first instruction")
                                    ELSE Unexpected("Signature not unique")
                       /\ pc' = ReturnPc
                       /\ UNCHANGED <<signature, sigPartLength, currentAddress, tested, starts,
                                      insnEnd, nQuery, nRead>>
                  ELSE IF Overflows(sigPartLength) /\ ~askLongerSignature
                  THEN /\ result' = Unexpected("Signature exceeded maximum length")
                       /\ pc' = ReturnPc
                       /\ UNCHANGED <<signature, sigPartLength, currentAddress, tested, starts,
                                      insnEnd, nQuery, nRead>>
                  ELSE IF Overflows(sigPartLength) /\ answer # 1
                  THEN /\ result' = IF answer = 0 THEN Unexpected("Signature not unique")
                                    ELSE Unexpected("Aborted")
                       /\ pc' = ReturnPc
                       /\ UNCHANGED <<signature, sigPartLength, currentAddress, tested, starts,
                                      insnEnd, nQuery, nRead>>
                  ELSE LET part == (IF Overflows(sigPartLength) THEN 0 ELSE sigPartLength)
                                   + currentInstructionLength
                           grown == AppendInstruction(signature, instruction, currentAddress)
                           count == Len(FindSignatureOccurences(
                                            BuildIDASignatureString(grown, FALSE)))
                       IN /\ sigPartLength' = part
                          /\ nRead' = nRead + (Len(grown) - Len(signature))
                          /\ nQuery' = nQuery + 1
                          /\ tested' = Append(tested, [signature |-> grown, count |-> count,
                                                       part |-> part])
                          /\ starts' = Append(starts, currentAddress)
                          /\ insnEnd' = currentAddress + currentInstructionLength
                          /\ IF StepIsUnique(grown)
                             THEN /\ signature' = TrimSignature(grown)
                                  /\ result' = Expected(TrimSignature(grown))
                                  /\ pc' = ReturnPc
                                  /\ UNCHANGED currentAddress
                             ELSE /\ signature' = grown
                                  /\ currentAddress' = currentAddress + currentInstructionLength
                                  /\ IF LeftFunction(currentAddress + currentInstructionLength)
                                     THEN /\ result' = Unexpected("Signature left function scope")
                                          /\ pc' = ReturnPc
                                     ELSE /\ result' = result
                                          /\ pc' = "loop"
    /\ UNCHANGED <<envVars, xrefVars, searchVars, cancelled, ea, eaEnd, currentFunction>>

\* what ask_yn can return: Yes, No, Cancel
AskAnswers == {1, 0, -1}

\* the prompt is shown only on an overflow with askLongerSignature set
GenerateUniqueStep ==
    \E answer \in (IF pc = "loop" /\ ~cancelled /\ askLongerSignature
                      /\ Overflows(sigPartLength) /\ decode_insn(currentAddress).size > 0
                   THEN AskAnswers ELSE {1}) :
        GenerateUniqueIteration(answer)

\* the user presses Cancel in the wait box
Cancel ==
    /\ pc \notin {"done"}
    /\ ~cancelled
    /\ cancelled' = TRUE
    /\ UNCHANGED <<envVars, buildVars, xrefVars, searchVars, pc>>

\* ------------------------------------------------------------ idle search state
SearchIdle ==
    /\ input = <<>> /\ origin = <<>> /\ dialect = "IDA" /\ source = "none"
    /\ genMask = <<>> /\ genValues = <<>> /\ stringMask = <<>>
    /\ convertedSignature = <<>> /\ convertedSignatureString = <<>> /\ parsedPattern = <<>>
    /\ messages = <<>> /\ matches = <<>>

XrefIdle == xrefs = <<>> /\ xi = 1 /\ xrefSignatures = <<>> /\ outcomes = <<>>

BuildIdle ==
    /\ signature = <<>> /\ sigPartLength = 0 /\ currentAddress = BADADDR /\ currentFunction = 0
    /\ result = NoResult /\ tested = <<>> /\ starts = <<>> /\ insnEnd = BADADDR
    /\ nDecode = 0 /\ nQuery = 0 /\ nRead = 0

\* GenerateUniqueSignatureForEA called on its own, with every parameter free
MaxLengths == {1, 2}

InitGrow ==
    /\ image \in Images
    /\ IS_ARM \in BOOLEAN
    /\ layout \in Layouts
    /\ action = 0
    /\ ea \in Addr \cup {BADADDR}
    /\ eaEnd = BADADDR
    /\ wildcardOperands \in BOOLEAN
    /\ continueOutsideOfFunction \in BOOLEAN
    /\ maxSignatureLength \in MaxLengths
    /\ askLongerSignature \in BOOLEAN
    /\ cancelled = FALSE
    /\ pc = "call"
    /\ BuildIdle /\ XrefIdle /\ SearchIdle

NextGrow == GenerateUniqueEnter \/ GenerateUniqueStep \/ Cancel

SpecGrow == InitGrow /\ [][NextGrow]_vars

\* ----------------------------------------- GenerateSignatureForEARange
\* entry: the address checks and the copy of a data range
GenerateRangeEnter ==
    /\ pc = "rcall"
    /\ IF ea = BADADDR \/ eaEnd = BADADDR
       THEN /\ result' = Unexpected("Invalid address")
            /\ pc' = "done"
            /\ UNCHANGED <<signature, sigPartLength, currentAddress, nRead>>
       ELSE IF ~is_code(ea)
       THEN /\ signature' = AddBytesToSignature(<<>>, ea, eaEnd - ea, FALSE)
            /\ result' = Expected(AddBytesToSignature(<<>>, ea, eaEnd - ea, FALSE))
            /\ nRead' = nRead + (eaEnd - ea)
            /\ pc' = "done"
            /\ UNCHANGED <<sigPartLength, currentAddress>>
       ELSE /\ signature' = <<>>
            /\ sigPartLength' = 0
            /\ currentAddress' = ea
            /\ result' = NoResult
            /\ pc' = "rloop"
            /\ UNCHANGED nRead
    /\ UNCHANGED <<envVars, xrefVars, searchVars, cancelled, ea, eaEnd, currentFunction,
                   tested, starts, insnEnd, nDecode, nQuery>>

\* one iteration of the while loop
GenerateRangeIteration ==
    /\ pc = "rloop"
    /\ IF user_cancelled
       THEN /\ result' = Unexpected("Aborted")
            /\ pc' = "done"
            /\ UNCHANGED <<signature, sigPartLength, currentAddress, starts, insnEnd,
                           nDecode, nRead>>
       ELSE LET instruction == decode_insn(currentAddress)
                currentInstructionLength == instruction.size
            IN /\ nDecode' = nDecode + 1
               /\ IF currentInstructionLength <= 0
                  THEN IF signature = <<>>
                       THEN /\ result' = Unexpected("Failed to decode first instruction")
                            /\ pc' = "done"
                            /\ UNCHANGED <<signature, sigPartLength, currentAddress, starts,
                                           insnEnd, nRead>>
                       ELSE LET rest == IF currentAddress < eaEnd
                                        THEN AddBytesToSignature(signature, currentAddress,
                                                                 eaEnd - currentAddress, FALSE)
                                        ELSE signature
                            IN /\ signature' = TrimSignature(rest)
                               /\ result' = Expected(TrimSignature(rest))
                               /\ nRead' = nRead + (Len(rest) - Len(signature))
                               /\ pc' = "done"
                               /\ UNCHANGED <<sigPartLength, currentAddress, starts, insnEnd>>
                  ELSE LET grown == AppendInstruction(signature, instruction, currentAddress)
                           next == currentAddress + currentInstructionLength
                       IN /\ sigPartLength' = sigPartLength + currentInstructionLength
                          /\ nRead' = nRead + (Len(grown) - Len(signature))
                          /\ starts' = Append(starts, currentAddress)
                          /\ insnEnd' = next
                          /\ currentAddress' = next
                          /\ IF next >= eaEnd
                             THEN /\ signature' = TrimSignature(grown)
                                  /\ result' = Expected(TrimSignature(grown))
                                  /\ pc' = "done"
                             ELSE /\ signature' = grown
                                  /\ result' = result
                                  /\ pc' = "rloop"
    /\ UNCHANGED <<envVars, xrefVars, searchVars, cancelled, ea, eaEnd, currentFunction,
                   tested, nQuery>>

\* ------------------------------------------------------------ FindXRefs
\* a routine that returns the vector in the order it was filled
SortBySize_NotSorted(list) == {list}

\* the orders std::ranges::sort may leave: every arrangement with sizes non-decreasing
SortBySize(list) ==
    LET n == Len(list)
        perms == {f \in [1..n -> 1..n] : \A i, j \in 1..n : i # j => f[i] # f[j]}
    IN {[i \in 1..n |-> list[f[i]]] : f \in
          {g \in perms : \A i \in 1..(n - 1) :
                            ~(Len(list[g[i + 1]][2]) < Len(list[g[i]][2]))}}

\* the head of the second loop: the next reference, or the sort that ends the routine
FindXRefsNext ==
    /\ pc = "xref"
    /\ IF xi > Len(xrefs)
       THEN /\ xrefSignatures' \in SortBySize(xrefSignatures)
            /\ pc' = "done"
            /\ UNCHANGED <<xi, ea, outcomes>>
       ELSE IF ~is_code(xrefs[xi])
       THEN /\ xi' = xi + 1
            /\ outcomes' = Append(outcomes, [from |-> xrefs[xi], result |-> NoResult])
            /\ UNCHANGED <<pc, ea, xrefSignatures>>
       ELSE /\ ea' = xrefs[xi]
            /\ pc' = "call"
            /\ UNCHANGED <<xi, xrefSignatures, outcomes>>
    /\ UNCHANGED <<envVars, searchVars, cancelled, xrefs, eaEnd, signature, sigPartLength,
                   currentAddress, currentFunction, result, tested, starts, insnEnd,
                   nDecode, nQuery, nRead>>

\* whether FindXRefs keeps what the builder returned
KeepsResult(r) == r.kind = "value"

\* after the builder returns: keep a successful signature, go on with the next reference
FindXRefsCollect ==
    /\ pc = "ret"
    /\ xrefSignatures' = IF KeepsResult(result)
                         THEN Append(xrefSignatures, <<ea, result.signature>>)
                         ELSE xrefSignatures
    /\ outcomes' = Append(outcomes, [from |-> ea, result |-> result])
    /\ xi' = xi + 1
    /\ pc' = "xref"
    /\ UNCHANGED <<envVars, searchVars, cancelled, xrefs, buildVars>>

\* ------------------------------------------------------------ plugin_ctx_t::run
\* the references to the screen address, in the order xrefblk_t yields them
RECURSIVE Increasing(_, _)
Increasing(n, from) ==
    IF n = 0 THEN {<<>>}
    ELSE {<<>>} \cup UNION {{<<a>> \o t : t \in Increasing(n - 1, a + 1)} :
                             a \in {b \in Addr : b >= from}}

XrefLists == Increasing(MaxXrefs, MinEA)

\* the range selections read_range_selection can hand over
Selections == {s \in (Addr \cup {BADADDR}) \X (Addr \cup {MaxEA, BADADDR}) :
                 (s[1] # BADADDR /\ s[2] # BADADDR) => s[1] <= s[2]}

InitRun ==
    /\ image \in Images
    /\ IS_ARM \in BOOLEAN
    /\ layout \in Layouts
    /\ wildcardOperands \in BOOLEAN
    /\ cancelled = FALSE
    /\ signature = <<>> /\ sigPartLength = 0 /\ currentAddress = BADADDR /\ currentFunction = 0
    /\ result = NoResult /\ tested = <<>> /\ starts = <<>> /\ insnEnd = BADADDR
    /\ nDecode = 0 /\ nQuery = 0 /\ nRead = 0
    /\ xi = 1 /\ xrefSignatures = <<>> /\ outcomes = <<>>
    /\ SearchIdle
    /\ \/ /\ action = 0
          /\ ea \in Addr \cup {BADADDR}
          /\ eaEnd = BADADDR
          /\ continueOutsideOfFunction \in BOOLEAN
          /\ maxSignatureLength = DefaultMaxSignatureLength
          /\ askLongerSignature = TRUE
          /\ xrefs = <<>>
          /\ pc = "call"
       \/ /\ action = 1
          /\ ea = BADADDR
          /\ eaEnd = BADADDR
          /\ continueOutsideOfFunction \in BOOLEAN
          /\ maxSignatureLength = XrefMaxSignatureLength
          /\ askLongerSignature = FALSE
          /\ xrefs \in XrefLists
          /\ pc = "xref"
       \/ /\ action = 2
          /\ \E s \in Selections : ea = s[1] /\ eaEnd = s[2]
          /\ continueOutsideOfFunction = FALSE
          /\ maxSignatureLength = DefaultMaxSignatureLength
          /\ askLongerSignature = TRUE
          /\ xrefs = <<>>
          /\ pc = "rcall"

NextRun ==
    \/ GenerateUniqueEnter
    \/ GenerateUniqueStep
    \/ GenerateRangeEnter
    \/ GenerateRangeIteration
    \/ FindXRefsNext
    \/ FindXRefsCollect
    \/ Cancel

SpecRun == InitRun /\ [][NextRun]_vars

\* ------------------------------------------------------------ SearchSignatureString
Min(S) == CHOOSE x \in S : \A y \in S : x <= y

\* the last index of the run of characters of S that starts at i (i - 1 when it is empty)
RunEnd(text, i, S) ==
    LET stops == {k \in i..Len(text) : text[k] \notin S}
    IN IF stops = {} THEN Len(text) ELSE Min(stops) - 1

MaskChars == {"x", "?"}

\* regex_search x(?:x|\?)+ : the first mask string, <<>> when there is none
MatchStringMask(text) ==
    LET begins == {i \in 1..(Len(text) - 1) : text[i] = "x" /\ text[i + 1] \in MaskChars}
    IN IF begins = {} THEN <<>>
       ELSE SubSeq(text, Min(begins), RunEnd(text, Min(begins) + 1, MaskChars))

\* the character class [0,1]
BitChars == {"0", ",", "1"}

\* regex_search 0b(?:[0,1])+ : the characters after the first "0b", <<>> when there is none
MatchBitmask(text) ==
    LET begins == {i \in 1..(Len(text) - 2) :
                     text[i] = "0" /\ text[i + 1] = "b" /\ text[i + 2] \in BitChars}
    IN IF begins = {} THEN <<>>
       ELSE SubSeq(text, Min(begins) + 2, RunEnd(text, Min(begins) + 2, BitChars))

\* a conversion that keeps the bits in the order written
BitsToMask_NotReversed(bits) ==
    [i \in 1..Len(bits) |-> IF bits[i] = "1" THEN "x" ELSE "?"]

\* the bits reversed, '1' to 'x' and anything else to '?'
BitsToMask(bits) ==
    [i \in 1..Len(bits) |-> IF bits[Len(bits) + 1 - i] = "1" THEN "x" ELSE "?"]

\* a two-character prefix, then two digits [0-9A-F], at i
ByteTokenAt(text, i, c1, c2) ==
    /\ i + 3 <= Len(text)
    /\ text[i] = c1 /\ text[i + 1] = c2
    /\ text[i + 2] \in HexChars /\ text[i + 3] \in HexChars

\* GetRegexMatches with \\x(?:[0-9A-F]{2}) : every match, left to right
RECURSIVE EscapedHexMatches(_, _)
EscapedHexMatches(text, i) ==
    IF i > Len(text) THEN <<>>
    ELSE IF ByteTokenAt(text, i, "\\", "x")
         THEN <<SubSeq(text, i, i + 3)>> \o EscapedHexMatches(text, i + 4)
         ELSE EscapedHexMatches(text, i + 1)

\* the end of the run of adjacent 0xNN groups that starts at i
RECURSIVE CHexRunEnd(_, _)
CHexRunEnd(text, i) ==
    IF ByteTokenAt(text, i + 4, "0", "x") THEN CHexRunEnd(text, i + 4) ELSE i + 3

\* GetRegexMatches with (?:0x(?:[0-9A-F]{2}))+ : every match, left to right
RECURSIVE CHexMatches(_, _)
CHexMatches(text, i) ==
    IF i > Len(text) THEN <<>>
    ELSE IF ByteTokenAt(text, i, "0", "x")
         THEN <<SubSeq(text, i, CHexRunEnd(text, i))>>
              \o CHexMatches(text, CHexRunEnd(text, i) + 1)
         ELSE CHexMatches(text, i + 1)

\* std::stoi(text, nullptr, 16): the value of the leading hexadecimal digits
RECURSIVE stoi16(_, _)
stoi16(text, acc) ==
    IF text # <<>> /\ Head(text) \in HexChars
    THEN stoi16(Tail(text), acc * 16 + HexValue(Head(text)))
    ELSE acc

\* SignatureByte{ std::stoi(m.substr(2), nullptr, 16), isWildcard }: the value is a uint8_t
TokenByte(m, isWildcard) == SignatureByte(stoi16(SubSeq(m, 3, Len(m)), 0) % 256, isWildcard)

\* the bytes zipped with the mask
ZipWithMask(rawByteStrings, mask) ==
    [i \in 1..Len(rawByteStrings) |-> TokenByte(rawByteStrings[i], mask[i] = "?")]

\* the bytes with no mask: all literal
AllLiteral(rawByteStrings) ==
    [i \in 1..Len(rawByteStrings) |-> TokenByte(rawByteStrings[i], FALSE)]

BracketChars == {"(", ")", "[", "]"}

\* regex_replace [\)\(\[\]]+ by nothing
RemoveBrackets(text) ==
    LET Keep(c) == c \notin BracketChars
    IN SelectSeq(text, Keep)

\* regex_replace ^\s+ by nothing
RECURSIVE StripLeadingWhitespace(_)
StripLeadingWhitespace(text) ==
    IF text # <<>> /\ Head(text) \in Whitespace THEN StripLeadingWhitespace(Tail(text))
    ELSE text

\* regex_replace [? ]+$ by nothing
RECURSIVE StripTrailingWildcards(_)
StripTrailingWildcards(text) ==
    IF text # <<>> /\ text[Len(text)] \in {"?", " "}
    THEN StripTrailingWildcards(SubSeq(text, 1, Len(text) - 1))
    ELSE text

\* regex_replace "\?\? " by "? ", left to right
RECURSIVE ReplaceDoubleQuestionMarks(_)
ReplaceDoubleQuestionMarks(text) ==
    IF text = <<>> THEN <<>>
    ELSE IF Len(text) >= 3 /\ text[1] = "?" /\ text[2] = "?" /\ text[3] = " "
         THEN <<"?", " ">> \o ReplaceDoubleQuestionMarks(SubSeq(text, 4, Len(text)))
         ELSE <<Head(text)>> \o ReplaceDoubleQuestionMarks(Tail(text))

\* regex_match (?:(?:[A-F0-9]{2}\s+)|(?:\?\s+))+ from index i, n tokens matched so far
RECURSIVE MatchesIDAFrom(_, _, _)
MatchesIDAFrom(text, i, n) ==
    IF i > Len(text) THEN n > 0
    ELSE IF i + 2 <= Len(text) /\ text[i] \in HexChars /\ text[i + 1] \in HexChars
            /\ text[i + 2] \in Whitespace
         THEN MatchesIDAFrom(text, RunEnd(text, i + 2, Whitespace) + 1, n + 1)
         ELSE IF i + 1 <= Len(text) /\ text[i] = "?" /\ text[i + 1] \in Whitespace
              THEN MatchesIDAFrom(text, RunEnd(text, i + 1, Whitespace) + 1, n + 1)
              ELSE FALSE

MatchesIDA(text) == MatchesIDAFrom(text, 1, 0)

\* the mask the input carries: a mask string, else a converted bitmask, else none
DetectMask(text) ==
    IF MatchStringMask(text) # <<>> THEN MatchStringMask(text)
    ELSE BitsToMask(MatchBitmask(text))

\* what the conversion leaves: the Signature built (if one was), the IDA text, the messages
Conversion(sig, text, msgs) == [signature |-> sig, text |-> text, messages |-> msgs]

\* the branch taken when a mask was detected
ConvertWithMask(text, mask) ==
    LET escaped == EscapedHexMatches(text, 1)
        chex == CHexMatches(text, 1)
    IN IF escaped # <<>> /\ Len(escaped) = Len(mask)
       THEN Conversion(ZipWithMask(escaped, mask),
                       BuildIDASignatureString(ZipWithMask(escaped, mask), FALSE), <<>>)
       ELSE IF chex # <<>> /\ Len(chex) = Len(mask)
       THEN Conversion(ZipWithMask(chex, mask),
                       BuildIDASignatureString(ZipWithMask(chex, mask), FALSE), <<>>)
       ELSE Conversion(<<>>, <<>>, <<"Detected mask but failed to match corresponding bytes">>)

\* a normalisation that leaves two-character wildcards as they are
NormalizeIDA_KeepsDoubleQuestionMarks(text) ==
    StripTrailingWildcards(StripLeadingWhitespace(RemoveBrackets(text))) \o <<" ">>

\* the input as normalised before the direct match
NormalizeIDA(text) ==
    ReplaceDoubleQuestionMarks(
        StripTrailingWildcards(StripLeadingWhitespace(RemoveBrackets(text))) \o <<" ">>)

\* the branch taken when no mask was detected
ConvertWithoutMask(text) ==
    LET normal == NormalizeIDA(text)
        escaped == EscapedHexMatches(normal, 1)
        chex == CHexMatches(normal, 1)
    IN IF MatchesIDA(normal) THEN Conversion(<<>>, normal, <<>>)
       ELSE IF escaped # <<>> /\ Len(escaped) > 1
       THEN Conversion(AllLiteral(escaped),
                       BuildIDASignatureString(AllLiteral(escaped), FALSE), <<>>)
       ELSE IF chex # <<>> /\ Len(chex) > 1
       THEN Conversion(AllLiteral(chex), BuildIDASignatureString(AllLiteral(chex), FALSE), <<>>)
       ELSE Conversion(<<>>, <<>>, <<"Failed to match signature format">>)

\* the whole routine: detection, conversion, then the search of the image
SearchSignatureString ==
    /\ pc = "search"
    /\ LET mask == DetectMask(input)
           conv == IF mask # <<>> THEN ConvertWithMask(input, mask)
                   ELSE ConvertWithoutMask(input)
           found == FindSignatureOccurences(conv.text)
       IN /\ stringMask' = mask
          /\ convertedSignature' = conv.signature
          /\ convertedSignatureString' = conv.text
          /\ IF conv.text = <<>>
             THEN /\ messages' = conv.messages \o <<"Unrecognized signature type">>
                  /\ parsedPattern' = <<>>
                  /\ matches' = <<>>
             ELSE /\ parsedPattern' = parse_binpat_str(conv.text)
                  /\ matches' = found
                  /\ messages' = conv.messages \o <<"Signature">>
                                 \o (IF found = <<>> THEN <<"Signature does not match!">>
                                     ELSE [i \in 1..Len(found) |-> "Match"])
    /\ pc' = "done"
    /\ UNCHANGED <<envVars, buildVars, xrefVars, cancelled, input, origin, dialect, source,
                   genMask, genValues>>

\* ------------------------------------------------------------ inputs of the search
RECURSIVE SeqsUpTo(_, _)
SeqsUpTo(S, n) ==
    IF n = 0 THEN {<<>>}
    ELSE SeqsUpTo(S, n - 1) \cup {Append(t, x) : t \in {u \in SeqsUpTo(S, n - 1) : Len(u) = n - 1}, x \in S}

\* the signatures a builder can hand to FormatSignature: non-empty, no trailing wildcard
SignatureBytes == {SignatureByte(v, w) : v \in Bytes, w \in BOOLEAN}
TrimmedSignatures ==
    {sig \in SeqsUpTo(SignatureBytes, MaxSigLen) : sig # <<>> /\ ~sig[Len(sig)].isWildcard}

\* hand-written inputs: n byte tokens of one form, a space, then a mask string or a bitmask
CraftValue(i) == (i * 75 + 17) % 256
MaxMaskLen == MaxSigLen + 1
CraftedValues == {[i \in 1..n |-> CraftValue(i)] : n \in 0..MaxMaskLen}
CraftedMasks ==
    {m \in SeqsUpTo(MaskChars, MaxMaskLen) : m # <<>>}
    \cup {<<"0", "b">> \o b : b \in {c \in SeqsUpTo(BitChars, MaxMaskLen) : c # <<>>}}
CraftedInput(values, form, mask) ==
    (IF form = "Signature_Mask"
     THEN Concat([i \in 1..Len(values) |-> <<"\\", "x">> \o HexByte(values[i])])
     ELSE Concat([i \in 1..Len(values) |-> <<"0", "x">> \o HexByte(values[i]) \o <<",", " ">>]))
    \o <<" ">> \o mask

\* the images the search runs over
SearchImages == {[a \in Addr |-> 144], [a \in Addr |-> IF a % 2 = 0 THEN 176 ELSE 144]}

InitSearch ==
    /\ image \in SearchImages
    /\ IS_ARM = FALSE
    /\ layout = "two"
    /\ action = 3
    /\ ea = BADADDR /\ eaEnd = BADADDR
    /\ wildcardOperands = TRUE
    /\ continueOutsideOfFunction = FALSE
    /\ maxSignatureLength = DefaultMaxSignatureLength
    /\ askLongerSignature = TRUE
    /\ cancelled = FALSE
    /\ pc = "search"
    /\ BuildIdle /\ XrefIdle
    /\ stringMask = <<>> /\ convertedSignature = <<>> /\ convertedSignatureString = <<>>
    /\ parsedPattern = <<>> /\ messages = <<>> /\ matches = <<>>
    /\ \/ /\ source = "rendered"
          /\ origin \in TrimmedSignatures
          /\ dialect \in SignatureTypes
          /\ input = FormatSignature(origin, dialect)
          /\ genMask = <<>> /\ genValues = <<>>
       \/ /\ source = "crafted"
          /\ origin = <<>>
          /\ dialect \in {"Signature_Mask", "SignatureByteArray_Bitmask"}
          /\ genMask \in CraftedMasks
          /\ genValues \in CraftedValues
          /\ input = CraftedInput(genValues, dialect, genMask)

NextSearch == SearchSignatureString

SpecSearch == InitSearch /\ [][NextSearch]_vars

\* ------------------------------------------------------------ properties
\* the occurrences of a signature in the image, counted position by position
Occurrences(sig) == {p \in Addr : OccursAt(sig, p)}

LastTested == tested[Len(tested)]

\* C1: GenerateUniqueSignatureForEA returns a signature only at a growth step at which the
\* matcher reported exactly one occurrence of the signature built so far; every earlier step
\* of that call reported more than one; it never grows past a step that reported exactly one.
C1_ReturnsAtFirstUniqueStep ==
    /\ \A i \in 1..Len(tested) :
          /\ tested[i].count = Cardinality(Occurrences(tested[i].signature))
          /\ i < Len(tested) => tested[i].count # 1
    /\ result.kind = "value" =>
          /\ tested # <<>>
          /\ LastTested.count = 1
          /\ result.signature = TrimSignature(LastTested.signature)
          /\ \A i \in 1..(Len(tested) - 1) : tested[i].count > 1
    /\ (tested # <<>> /\ LastTested.count = 1) => result.kind = "value"

C1_Witness ==
    /\ result.kind = "value"
    /\ Len(tested) >= 2
    /\ tested[1].count > 1

\* C2 (as stated): with askLongerSignature off, no signature is tested for uniqueness, and
\* none is returned, with more than maxSignatureLength bytes.
C2_NeverTestsBeyondMaxLength ==
    ~askLongerSignature =>
        \A i \in 1..Len(tested) : Len(tested[i].signature) <= maxSignatureLength

\* C3 (as stated): with continueOutsideOfFunction off, every appended instruction starts at
\* an address whose enclosing function equals the anchor's, none included.
C3_AppendedStayInAnchorFunction ==
    (pc # "call" /\ ~continueOutsideOfFunction) =>
        \A i \in 1..Len(starts) : get_func(starts[i]) = get_func(ea)

\* C3 (amended): with continueOutsideOfFunction off and the anchor inside a function, every
\* appended instruction starts inside that function, and a non-unique step whose new cursor
\* lies outside it ends the call with "Signature left function scope".
C3_AppendedStayInFunctionWhenAnchorHasOne ==
    (pc # "call" /\ ~continueOutsideOfFunction /\ get_func(ea) # 0) =>
        /\ \A i \in 1..Len(starts) : get_func(starts[i]) = get_func(ea)
        /\ (tested # <<>> /\ LastTested.count # 1 /\ currentAddress = insnEnd
            /\ get_func(currentAddress) # get_func(ea))
              => result = Unexpected("Signature left function scope")

C3_Witness ==
    /\ ~continueOutsideOfFunction
    /\ get_func(ea) # 0
    /\ Len(starts) >= 2
    /\ result = Unexpected("Signature left function scope")

\* C9 (as stated): after every growth step the signature tested has cursor - anchor entries
\* and entry i holds the image byte at anchor + i.
C9_SignatureAlignedWithImage ==
    tested # <<>> =>
        /\ Len(LastTested.signature) = insnEnd - ea
        /\ \A i \in 1..Len(LastTested.signature) :
              LastTested.signature[i].value = get_byte(ea + i - 1)

\* C10 (as stated): the trimmed signature handed back is non-empty and has exactly one
\* occurrence lying wholly inside the image.
C10_ReturnedSignatureIsUnique ==
    result.kind = "value" =>
        /\ result.signature # <<>>
        /\ Cardinality(Occurrences(result.signature)) = 1

\* C4 (as stated): GenerateSignatureForEARange answers "Invalid address", having read no
\* image byte and decoded nothing, whenever start = end or either is BADADDR.
C4_EmptyRangeIsInvalidAddress ==
    (action = 2 /\ pc = "done" /\ (ea = eaEnd \/ ea = BADADDR \/ eaEnd = BADADDR)) =>
        /\ result = Unexpected("Invalid address")
        /\ nRead = 0
        /\ nDecode = 0

\* the builds FindXRefs kept: the outcomes that carry a signature
GoodOutcomes == {i \in 1..Len(outcomes) : outcomes[i].result.kind = "value"}

\* C6: when FindXRefs returns, every reference has been handled in turn; the vector holds
\* exactly one entry (origin, signature) per code origin whose build succeeded and nothing
\* else; it is ordered by non-decreasing signature size, so its first entry is a shortest.
C6_RankedXrefSignatures ==
    (action = 1 /\ pc = "done") =>
        /\ Len(outcomes) = Len(xrefs)
        /\ \A i \in 1..Len(xrefs) :
              /\ outcomes[i].from = xrefs[i]
              /\ ~is_code(xrefs[i]) => outcomes[i].result = NoResult
              /\ is_code(xrefs[i]) => outcomes[i].result # NoResult
        /\ Len(xrefSignatures) = Cardinality(GoodOutcomes)
        /\ \A i \in GoodOutcomes :
              Cardinality({k \in 1..Len(xrefSignatures) :
                             xrefSignatures[k] = <<outcomes[i].from,
                                                   outcomes[i].result.signature>>}) = 1
        /\ \A k \in 1..Len(xrefSignatures) :
              /\ is_code(xrefSignatures[k][1])
              /\ \E i \in GoodOutcomes : xrefSignatures[k][1] = outcomes[i].from
        /\ \A k \in 1..(Len(xrefSignatures) - 1) :
              Len(xrefSignatures[k][2]) <= Len(xrefSignatures[k + 1][2])
        /\ \A k \in 1..Len(xrefSignatures) :
              Len(xrefSignatures[1][2]) <= Len(xrefSignatures[k][2])

C6_Witness ==
    /\ action = 1 /\ pc = "done"
    /\ Len(xrefSignatures) >= 2
    /\ xrefSignatures[1][1] > xrefSignatures[2][1]
    /\ Len(xrefSignatures[1][2]) < Len(xrefSignatures[2][2])

\* C7: once user_cancelled() answers true no instruction is decoded and no matcher query is
\* issued, in any builder or in FindXRefs; a loop iteration of either builder that begins
\* with the flag set returns "Aborted" and leaves the signature as it was.
C7_CancelStopsDecodingAndQueries ==
    [][/\ cancelled => (nDecode' = nDecode /\ nQuery' = nQuery)
       /\ (cancelled /\ pc \in {"loop", "rloop"}) =>
             /\ result' = Unexpected("Aborted")
             /\ pc' \in {"ret", "done"}
             /\ signature' = signature
             /\ nRead' = nRead]_vars

C7_Witness ==
    /\ action = 1 /\ pc = "done" /\ cancelled
    /\ nDecode >= 1
    /\ Len(outcomes) >= 2
    /\ \A i \in 1..Len(outcomes) : outcomes[i].result = Unexpected("Aborted")

\* the pattern the search ran has the length, the wildcard positions and the literal byte
\* values of the signature that was rendered
RoundTrips ==
    /\ Len(parsedPattern) = Len(origin)
    /\ \A i \in 1..Len(origin) :
          /\ parsedPattern[i].isWildcard = origin[i].isWildcard
          /\ ~origin[i].isWildcard => parsedPattern[i].value = origin[i].value

\* C5 (as stated): a non-empty signature without trailing wildcard, rendered in any of the
\* four dialects and handed to SearchSignatureString, comes back with the same length, the
\* same literal byte values and the same wildcard positions.
C5_RoundTripEveryDialect ==
    (source = "rendered" /\ pc = "done") => RoundTrips

\* C5 (amended): the round trip holds in the IDA, x64Dbg and bitmask dialects, and in the
\* string-mask dialect for signatures of at least two bytes whose first byte is no wildcard.
C5_RoundTripWhereMaskIsDetected ==
    (source = "rendered" /\ pc = "done"
     /\ (dialect = "Signature_Mask" => (Len(origin) >= 2 /\ ~origin[1].isWildcard)))
        => RoundTrips

C5_Witness ==
    /\ source = "rendered" /\ pc = "done"
    /\ dialect = "SignatureByteArray_Bitmask"
    /\ Len(origin) = MaxSigLen
    /\ origin[1].isWildcard /\ ~origin[2].isWildcard
    /\ RoundTrips
    /\ matches # <<>>

\* the bits of a hand-written bitmask, as written
GenBits == SubSeq(genMask, 3, Len(genMask))

====
